---------------------------- MODULE Spec2Model ----------------------------
(***************************************************************************)
(* Model of streamlit_movie.py: the movies dashboard script.               *)
(*                                                                         *)
(* One run of the script (a "pass") is one action: load_data() through the *)
(* cache, the four sidebar widgets, the filter, and the three tabs.        *)
(*                                                                         *)
(* Numbers.  averageRating is held in tenths (65 is 6.5), budgets, votes   *)
(* and coordinates are small naturals.  A mean is an exact reduced         *)
(* fraction [n, d]; floating-point rounding is not modelled.  The budget   *)
(* slider works in twentieths of a budget unit, because the 5% and 95%     *)
(* quantiles of integer budgets are multiples of 1/20.                     *)
(***************************************************************************)
EXTENDS Integers, Sequences, FiniteSets, TLC

\* ------------------------------------------------------------------------
\* Bounds
\* ------------------------------------------------------------------------
\* Largest number of rows in movies_with_coords.csv.
MaxRows == 2

\* ------------------------------------------------------------------------
\* Cells
\* ------------------------------------------------------------------------
\* np.nan in a numeric column.
NaN == -1
\* A numeric cell whose text does not parse as a number.
Unparseable == -2
\* np.nan in the genres column (an empty cell read by read_csv).
NaNStr == "NaN"
\* The literal "\\N" of lines 45-46: a backslash followed by N.
Sentinel == "\\N"
\* The string "N/A" the popup shows for a missing value.
NotAvailable == "N/A"

\* Python string order (code points) on the strings the genres column holds.
GenreOrder == <<"Action", "Drama", "Horror", "\\N">>

StrRank(s) == CHOOSE i \in 1..Len(GenreOrder) : GenreOrder[i] = s

RawRow(t, y, g, r, b, v, la, lo) ==
    [title |-> t, startYear |-> y, genres |-> g, averageRating |-> r,
     budget |-> b, numVotes |-> v, lat |-> la, lon |-> lo]

\* The rows the source file is made of.  A, B and C agree on year and budget
\* and differ in genre, rating, votes and coordinates; D is older than 2000,
\* of a genre outside the default selection, with a fractional rating and
\* another budget; E has no genre, votes or coordinates; F to I each miss
\* one of the filtered fields (G the genre, as the sentinel).
Rows ==
    { RawRow("A", 2001, "Drama",  60, 2, 10, 1, 1),
      RawRow("B", 2001, "Drama",  80, 2, 20, NaN, 3),
      RawRow("C", 2001, "Action", 60, 2, 30, 3, NaN),
      RawRow("D", 1999, "Horror", 65, 4, 10, 3, 5),
      RawRow("E", 2001, NaNStr,   60, 2, NaN, NaN, NaN),
      RawRow("F", Unparseable, "Drama", 80, 2, 10, 1, 1),
      RawRow("G", 2001, Sentinel, 65, 4, 20, 2, 2),
      RawRow("H", 2001, "Drama",  NaN, 2, 10, 1, 1),
      RawRow("I", 2000, "Action", 80, NaN, 20, 2, 2) }

SeqsUpTo(S, n) == UNION { [1..k -> S] : k \in 0..n }

\* The contents the source file can have.
Files == SeqsUpTo(Rows, MaxRows)

\* ------------------------------------------------------------------------
\* Arithmetic helpers
\* ------------------------------------------------------------------------
RECURSIVE GCD(_, _)
GCD(a, b) == IF b = 0 THEN a ELSE GCD(b, a % b)

RECURSIVE Sum(_)
Sum(s) == IF s = <<>> THEN 0 ELSE Head(s) + Sum(Tail(s))

\* Series.mean(): the exact mean as a reduced fraction; NaN (0/0) when empty.
Mean(vals) ==
    IF vals = <<>> THEN [n |-> 0, d |-> 0]
    ELSE LET g == GCD(Sum(vals), Len(vals))
         IN  [n |-> Sum(vals) \div g, d |-> Len(vals) \div g]

Max2(a, b) == IF a >= b THEN a ELSE b

SetMin(S) == CHOOSE x \in S : \A y \in S : x <= y
SetMax(S) == CHOOSE x \in S : \A y \in S : x >= y

Column(frame, c) == [i \in DOMAIN frame |-> frame[i][c]]

\* Series.dropna() on a numeric column.
DropNa(col) == SelectSeq(col, LAMBDA x : x # NaN)

\* Ascending sort of a sequence of numbers (insertion sort).
RECURSIVE InsertAsc(_, _)
InsertAsc(x, s) ==
    IF s = <<>> THEN <<x>>
    ELSE IF x < Head(s) THEN <<x>> \o s
    ELSE <<Head(s)>> \o InsertAsc(x, Tail(s))

RECURSIVE SortAsc(_)
SortAsc(s) == IF s = <<>> THEN <<>> ELSE InsertAsc(Head(s), SortAsc(Tail(s)))

\* ------------------------------------------------------------------------
\* Dataset loader (lines 33-51)
\* ------------------------------------------------------------------------
\* pd.to_numeric(..., errors="coerce")
to_numeric(x) == IF x = Unparseable THEN NaN ELSE x

\* Series.fillna(v) on the genres column.
fillna(col, v) == [i \in DOMAIN col |-> IF col[i] = NaNStr THEN v ELSE col[i]]

\* Series.replace(a, b) on the genres column (whole-cell match).
replace(col, a, b) == [i \in DOMAIN col |-> IF col[i] = a THEN b ELSE col[i]]

\* A plausible slip: the second statement (line 46) left out.
NormalizeGenres_NoReplace(col) == fillna(col, Sentinel)

\* Lines 45-46.
NormalizeGenres(col) == replace(fillna(col, Sentinel), Sentinel, NaNStr)

\* pd.read_csv plus the coercions: one record per row, labelled 0..n-1.
Preprocess(file) ==
    LET g == NormalizeGenres(Column(file, "genres"))
    IN  [i \in DOMAIN file |->
            [idx           |-> i - 1,
             title         |-> file[i].title,
             startYear     |-> to_numeric(file[i].startYear),
             genres        |-> g[i],
             averageRating |-> to_numeric(file[i].averageRating),
             budget        |-> to_numeric(file[i].budget),
             numVotes      |-> to_numeric(file[i].numVotes),
             lat           |-> to_numeric(file[i].lat),
             lon           |-> to_numeric(file[i].lon)]]

EmptyCache == [hit |-> FALSE, value |-> <<>>]

\* A plausible slip: the @st.cache_data decorator left out.
load_data_NoCache(c, file, n) ==
    [cache |-> [hit |-> TRUE, value |-> Preprocess(file)],
     value |-> Preprocess(file),
     reads |-> n + 1]

\* @st.cache_data load_data(): c is the cache entry, file the source on disk,
\* n the number of reads of the source so far.
load_data(c, file, n) ==
    IF c.hit
    THEN [cache |-> c, value |-> c.value, reads |-> n]
    ELSE [cache |-> [hit |-> TRUE, value |-> Preprocess(file)],
          value |-> Preprocess(file),
          reads |-> n + 1]

\* ------------------------------------------------------------------------
\* Sidebar (lines 56-120)
\* ------------------------------------------------------------------------
Range(s) == { s[i] : i \in DOMAIN s }

\* Lines 59-64.
valid_years(frame) == DropNa(Column(frame, "startYear"))
min_year(frame) ==
    IF valid_years(frame) # <<>> THEN SetMin(Range(valid_years(frame))) ELSE 1900
max_year(frame) ==
    IF valid_years(frame) # <<>> THEN SetMax(Range(valid_years(frame))) ELSE 2025

Min2(a, b) == IF a <= b THEN a ELSE b

\* The arguments the script hands to the year slider (lines 66-71).
YearSliderArgs(frame) ==
    [min_value |-> min_year(frame),
     max_value |-> max_year(frame),
     value     |-> <<Max2(min_year(frame), 2000), max_year(frame)>>]

\* The default is a non-decreasing pair inside [min_value, max_value].
SliderAccepts(s) ==
    /\ s.min_value <= s.value[1]
    /\ s.value[1] <= s.value[2]
    /\ s.value[2] <= s.max_value

\* What st.slider makes of arguments it does not accept is decided by the
\* library, not by this script: it raises StreamlitAPIException, or it swaps
\* a reversed pair and widens the bounds to hold it.  Both outcomes are kept
\* (see FirstRun); this is the second one.
Repaired(s) ==
    LET lo == Min2(s.value[1], s.value[2])
        hi == Max2(s.value[1], s.value[2])
    IN  [min_value |-> Min2(lo, s.min_value),
         max_value |-> Max2(hi, s.max_value),
         value     |-> <<lo, hi>>]

\* The year slider as shown: the arguments, repaired when need be.
YearSlider(frame) == Repaired(YearSliderArgs(frame))

\* Lines 74-80: the distinct present genres, sorted.
RECURSIVE SortStrings(_)
SortStrings(S) ==
    IF S = {} THEN <<>>
    ELSE LET m == CHOOSE x \in S : \A y \in S : StrRank(x) <= StrRank(y)
         IN  <<m>> \o SortStrings(S \ {m})

genres_list(frame) ==
    SortStrings({ frame[i].genres : i \in DOMAIN frame } \ {NaNStr})

\* Line 83.
default_genres(frame) ==
    SelectSeq(genres_list(frame), LAMBDA x : x \in {"Action", "Comedy", "Drama"})

\* 0.05 and 0.95 are 1/20 and 19/20.
QScale == 20

\* Series.quantile(k/20) with linear interpolation, times QScale.
Quantile20(vals, k) ==
    LET s    == SortAsc(vals)
        pos  == k * (Len(s) - 1)
        i    == (pos \div QScale) + 1
        frac == pos % QScale
    IN  IF frac = 0 THEN QScale * s[i]
        ELSE QScale * s[i] + frac * (s[i + 1] - s[i])

\* Lines 93-99, in twentieths.
budget_valid(frame) == DropNa(Column(frame, "budget"))
b_min(frame) ==
    IF budget_valid(frame) # <<>> THEN Quantile20(budget_valid(frame), 1) ELSE 0
b_max(frame) ==
    IF budget_valid(frame) # <<>> THEN Quantile20(budget_valid(frame), 19)
    ELSE QScale * 1

\* Lines 107-112, in tenths.
ratings_valid(frame) == DropNa(Column(frame, "averageRating"))
min_rating(frame) ==
    IF ratings_valid(frame) # <<>> THEN SetMin(Range(ratings_valid(frame))) ELSE 0
max_rating(frame) ==
    IF ratings_valid(frame) # <<>> THEN SetMax(Range(ratings_valid(frame))) ELSE 100

\* np.floor and np.ceil of a rating held in tenths.
floor10(x) == (x \div 10) * 10
ceil10(x) == ((x + 9) \div 10) * 10


\* The stops of each slider the user's choice is drawn from: the ends of the
\* slider, 2000, and the values present in the data.
YearStops(frame) ==
    LET shown == YearSlider(frame)
    IN  { y \in {shown.min_value, shown.max_value, 2000}
                  \cup Range(valid_years(frame)) :
            shown.min_value <= y /\ y <= shown.max_value }

BudgetStops(frame) ==
    {b_min(frame), b_max(frame)} \cup
    { QScale * b : b \in { x \in Range(budget_valid(frame)) :
        b_min(frame) <= QScale * x /\ QScale * x <= b_max(frame) } }

RatingStops(frame) ==
    {floor10(min_rating(frame)), ceil10(max_rating(frame))} \cup
    Range(ratings_valid(frame))

Pairs(S) == { <<lo, hi>> \in S \X S : lo <= hi }

\* What the four widgets return on the first run of a session: the defaults.
Defaults(frame) ==
    [years           |-> YearSlider(frame).value,
     selected_genres |-> IF genres_list(frame) # <<>>
                         THEN Range(default_genres(frame)) ELSE {},
     budget_range    |-> <<b_min(frame), b_max(frame)>>,
     rating_range    |-> <<Max2(0, floor10(min_rating(frame))),
                           ceil10(max_rating(frame))>>]

\* ------------------------------------------------------------------------
\* Filter (lines 127-144)
\* ------------------------------------------------------------------------
\* A plausible slip: strict comparisons.
between_Exclusive(x, lo, hi) == x # NaN /\ lo < x /\ x < hi

\* Series.between(lo, hi): inclusive on both ends, False for NaN.
between(x, lo, hi) == x # NaN /\ lo <= x /\ x <= hi

\* Series.isin(values): False for NaN.
isin(x, values) == x # NaNStr /\ x \in values

\* A budget in twentieths, to compare with the budget slider.
Scaled(x) == IF x = NaN THEN NaN ELSE QScale * x

Reverse(s) == [i \in DOMAIN s |-> s[Len(s) + 1 - i]]

YearFilter(frame, w) ==
    SelectSeq(frame, LAMBDA r : between(r.startYear, w.years[1], w.years[2]))
GenreFilter(frame, w) ==
    IF w.selected_genres # {}
    THEN SelectSeq(frame, LAMBDA r : isin(r.genres, w.selected_genres))
    ELSE frame
RatingFilter(frame, w) ==
    SelectSeq(frame, LAMBDA r :
        between(r.averageRating, w.rating_range[1], w.rating_range[2]))
BudgetFilter(frame, w) ==
    SelectSeq(frame, LAMBDA r :
        between(Scaled(r.budget), w.budget_range[1], w.budget_range[2]))

\* A plausible slip: the result handed on newest-first.
ApplyFilters_Reversed(frame, w) ==
    Reverse(BudgetFilter(RatingFilter(GenreFilter(YearFilter(frame, w), w), w), w))

\* df_filtered of lines 127-144 for the widget values w.
ApplyFilters(frame, w) ==
    BudgetFilter(RatingFilter(GenreFilter(YearFilter(frame, w), w), w), w)

\* ------------------------------------------------------------------------
\* Map tab (lines 154-210)
\* ------------------------------------------------------------------------
\* f"{n:,}" for a natural n.
Pad3(n) ==
    IF n < 10 THEN "00" \o ToString(n)
    ELSE IF n < 100 THEN "0" \o ToString(n) ELSE ToString(n)

RECURSIVE Commas(_)
Commas(n) ==
    IF n < 1000 THEN ToString(n)
    ELSE Commas(n \div 1000) \o "," \o Pad3(n % 1000)

\* str(round(x, 2)) for a rating held in tenths.
RatingText(r) == ToString(r \div 10) \o "." \o ToString(r % 10)

\* Lines 187-200.
popup_html(row) ==
    LET year   == IF row.startYear # NaN THEN ToString(row.startYear)
                  ELSE NotAvailable
        genre  == IF row.genres # NaNStr THEN row.genres ELSE NotAvailable
        rating == IF row.averageRating # NaN THEN RatingText(row.averageRating)
                  ELSE NotAvailable
        budget == IF row.budget # NaN THEN Commas(row.budget) ELSE NotAvailable
    IN  "<b>" \o row.title \o "</b>" \o "<br>" \o "Year: " \o year \o "<br>"
        \o "Genre: " \o genre \o "<br>" \o "Rating: " \o rating \o "<br>"
        \o "Budget: " \o budget

\* Lines 202-206.
Marker(row) ==
    [idx      |-> row.idx,
     location |-> <<row.lat, row.lon>>,
     popup    |-> popup_html(row),
     tooltip  |-> row.title]

\* A plausible slip: only lat is required.
df_map_LatOnly(filtered) == SelectSeq(filtered, LAMBDA r : r.lat # NaN)

\* Line 157: dropna(subset=["lat", "lon"]).
df_map(filtered) == SelectSeq(filtered, LAMBDA r : r.lat # NaN /\ r.lon # NaN)

NoData == "No data for the selected filters."

Centre(mappable) ==
    <<Mean(Column(mappable, "lat")), Mean(Column(mappable, "lon"))>>

\* A plausible slip: the elif of line 161 left out.
MapTab_NoMappableCheck(filtered) ==
    IF filtered = <<>>
    THEN [info |-> <<NoData>>, centre |-> <<>>, markers |-> <<>>, drawn |-> FALSE]
    ELSE [info    |-> <<>>,
          centre  |-> Centre(df_map(filtered)),
          markers |-> [i \in DOMAIN df_map(filtered) |-> Marker(df_map(filtered)[i])],
          drawn   |-> TRUE]

\* Lines 157-210: info is the list of st.info notices, centre the pair
\* (center_lat, center_lon) when it was computed, drawn whether st_folium ran.
MapTab(filtered) ==
    LET mappable == df_map(filtered)
    IN  IF filtered = <<>>
        THEN [info |-> <<NoData>>, centre |-> <<>>, markers |-> <<>>,
              drawn |-> FALSE]
        ELSE IF mappable = <<>>
        THEN [info    |-> <<"No movies with valid latitude/longitude after filtering.">>,
              centre  |-> <<>>, markers |-> <<>>, drawn |-> FALSE]
        ELSE [info    |-> <<>>,
              centre  |-> Centre(mappable),
              markers |-> [i \in DOMAIN mappable |-> Marker(mappable[i])],
              drawn   |-> TRUE]


\* ------------------------------------------------------------------------
\* Trends tab (lines 215-275)
\* ------------------------------------------------------------------------
Complete(r) == r.startYear # NaN /\ r.genres # NaNStr /\ r.averageRating # NaN

\* The group keys in groupby's order: ascending by year, then by genre.
RECURSIVE SortKeys(_)
SortKeys(K) ==
    IF K = {} THEN <<>>
    ELSE LET m == CHOOSE x \in K : \A y \in K :
                     \/ x[1] < y[1]
                     \/ x[1] = y[1] /\ StrRank(x[2]) <= StrRank(y[2])
         IN  <<m>> \o SortKeys(K \ {m})

\* A plausible slip: .sum() in place of .mean().
Aggregate_Sum(vals) == [n |-> Sum(vals), d |-> 1]

\* The aggregation of line 231.
Aggregate(vals) == Mean(vals)

\* Lines 227-233: dropna, groupby(["startYear", "genres"]), mean, rename.
df_group(filtered) ==
    LET rows == SelectSeq(filtered, Complete)
        keys == SortKeys({ <<rows[i].startYear, rows[i].genres>> : i \in DOMAIN rows })
    IN  [k \in DOMAIN keys |->
            [year       |-> keys[k][1],
             genres     |-> keys[k][2],
             avg_rating |-> Aggregate(Column(
                 SelectSeq(rows, LAMBDA r :
                     r.startYear = keys[k][1] /\ r.genres = keys[k][2]),
                 "averageRating"))]]

\* A plausible slip: the frame cut down to the tooltip's columns first.
df_scatter_Projected(filtered) ==
    LET kept == SelectSeq(filtered, LAMBDA r : r.budget # NaN /\ r.averageRating # NaN)
    IN  [i \in DOMAIN kept |->
            [c \in {"idx", "title", "startYear", "genres", "budget", "averageRating"}
                |-> kept[i][c]]]

\* Line 255: dropna(subset=["budget", "averageRating"]).copy(); every column
\* of the frame is kept.
df_scatter(filtered) ==
    SelectSeq(filtered, LAMBDA r : r.budget # NaN /\ r.averageRating # NaN)

\* Lines 238-248.
LineChart(data) ==
    [data |-> data, mark |-> "line", x |-> "year:O", y |-> "avg_rating:Q",
     color |-> "genres:N", tooltip |-> <<"year", "genres", "avg_rating">>]

\* Lines 260-274.
ScatterChart(data) ==
    [data |-> data, mark |-> "circle", x |-> "budget:Q", y |-> "averageRating:Q",
     color |-> "genres:N",
     tooltip |-> <<"title", "startYear", "genres", "budget", "averageRating">>]

\* Lines 218-275: charts is the list of charts handed to st.altair_chart.
TrendsTab(filtered) ==
    IF filtered = <<>>
    THEN [info |-> <<NoData>>, df_group |-> <<>>, df_scatter |-> <<>>,
          charts |-> <<>>]
    ELSE LET trend == df_group(filtered)
             pairs == df_scatter(filtered)
         IN  [info |->
                 (IF trend = <<>>
                  THEN <<"No grouped data to display trends.">> ELSE <<>>)
                 \o (IF pairs = <<>>
                     THEN <<"No data with both budget and rating.">> ELSE <<>>),
              df_group   |-> trend,
              df_scatter |-> pairs,
              charts |->
                 (IF trend = <<>> THEN <<>> ELSE <<LineChart(trend)>>)
                 \o (IF pairs = <<>> THEN <<>> ELSE <<ScatterChart(pairs)>>)]

\* ------------------------------------------------------------------------
\* Data tab (lines 280-301)
\* ------------------------------------------------------------------------
columns_to_show ==
    <<"title", "startYear", "genres", "averageRating", "budget", "numVotes",
      "lat", "lon">>

SortKeyColumns == <<"startYear", "averageRating", "budget", "numVotes">>

\* df[columns]: the row label is kept with the selected columns.
Project(row, columns) == [c \in Range(columns) \cup {"idx"} |-> row[c]]

\* A plausible slip: ascending=True.
Precedes_Ascending(a, b, k) == a # NaN /\ (b = NaN \/ a < b)

\* Whether value a of one sort key goes strictly before value b:
\* ascending=False, na_position="last".
Precedes(a, b, k) == a # NaN /\ (b = NaN \/ a > b)

\* Row x goes strictly before row y under by=SortKeyColumns.
RECURSIVE RowPrecedes(_, _, _)
RowPrecedes(x, y, k) ==
    IF k > Len(SortKeyColumns) THEN FALSE
    ELSE LET c == SortKeyColumns[k]
         IN  IF x[c] = y[c] THEN RowPrecedes(x, y, k + 1)
             ELSE Precedes(x[c], y[c], k)

\* The sort is stable: x goes behind every row that does not come after it.
RECURSIVE InsertRow(_, _)
InsertRow(x, s) ==
    IF s = <<>> THEN <<x>>
    ELSE IF RowPrecedes(x, Head(s), 1) THEN <<x>> \o s
    ELSE <<Head(s)>> \o InsertRow(x, Tail(s))

RECURSIVE sort_values(_)
sort_values(s) ==
    IF s = <<>> THEN <<>>
    ELSE InsertRow(s[Len(s)], sort_values(SubSeq(s, 1, Len(s) - 1)))

\* Lines 297-299.
df_display(filtered) ==
    sort_values([i \in DOMAIN filtered |-> Project(filtered[i], columns_to_show)])

\* Lines 283-301.
TableTab(filtered) ==
    IF filtered = <<>>
    THEN [info |-> <<NoData>>, df_display |-> <<>>, drawn |-> FALSE]
    ELSE [info |-> <<>>, df_display |-> df_display(filtered), drawn |-> TRUE]

\* ------------------------------------------------------------------------
\* State
\* ------------------------------------------------------------------------
VARIABLES
    csv,             \* movies_with_coords.csv on disk
    cache,           \* the st.cache_data entry of load_data
    reads,           \* how many times pd.read_csv has run
    df,              \* the script's df in the latest pass
    status,          \* "init", or how the latest pass ended: "ok" or "error"
    years,           \* the widget values of the latest pass
    selected_genres,
    budget_range,
    rating_range,
    df_filtered,     \* the filtered subset of the latest pass
    tab_map,         \* what each tab showed in the latest pass
    tab_trends,
    tab_table

vars == <<csv, cache, reads, df, status, years, selected_genres, budget_range,
          rating_range, df_filtered, tab_map, tab_trends, tab_table>>

Blank == [info |-> <<>>]

Init ==
    /\ csv \in Files
    /\ cache = EmptyCache
    /\ reads = 0
    /\ df = <<>>
    /\ status = "init"
    /\ years = <<>>
    /\ selected_genres = {}
    /\ budget_range = <<>>
    /\ rating_range = <<>>
    /\ df_filtered = <<>>
    /\ tab_map = Blank
    /\ tab_trends = Blank
    /\ tab_table = Blank

Widgets ==
    [years |-> years, selected_genres |-> selected_genres,
     budget_range |-> budget_range, rating_range |-> rating_range]

\* One run of the script from line 1 to line 301.  first: no widget has a
\* value in the session yet, so each returns its default; otherwise the
\* widgets return w.  raises: st.slider raises on arguments it does not
\* accept.
Pass(first, w, raises) ==
    LET loaded == load_data(cache, csv, reads)
        frame  == loaded.value
        used   == IF first THEN Defaults(frame) ELSE w
    IN  /\ cache' = loaded.cache
        /\ reads' = loaded.reads
        /\ df' = frame
        /\ csv' = csv
        /\ IF first /\ raises /\ ~SliderAccepts(YearSliderArgs(frame))
           THEN \* st.sidebar.slider raises at line 66; the run stops there.
                /\ status' = "error"
                /\ UNCHANGED <<years, selected_genres, budget_range, rating_range,
                               df_filtered>>
                /\ tab_map' = Blank
                /\ tab_trends' = Blank
                /\ tab_table' = Blank
           ELSE LET filtered == ApplyFilters(frame, used)
                IN  /\ status' = "ok"
                    /\ years' = used.years
                    /\ selected_genres' = used.selected_genres
                    /\ budget_range' = used.budget_range
                    /\ rating_range' = used.rating_range
                    /\ df_filtered' = filtered
                    /\ tab_map' = MapTab(filtered)
                    /\ tab_trends' = TrendsTab(filtered)
                    /\ tab_table' = TableTab(filtered)

\* The first run of the session.
FirstRun ==
    /\ status = "init"
    /\ \E raises \in BOOLEAN : Pass(TRUE, Widgets, raises)

\* The user moves the Release Year slider.
ChangeYears ==
    /\ status = "ok"
    /\ \E v \in Pairs(YearStops(df)) :
          /\ v # years
          /\ Pass(FALSE, [Widgets EXCEPT !.years = v], FALSE)

\* The user changes the Genres multiselect.
ChangeGenres ==
    /\ status = "ok"
    /\ \E v \in SUBSET Range(genres_list(df)) :
          /\ v # selected_genres
          /\ Pass(FALSE, [Widgets EXCEPT !.selected_genres = v], FALSE)

\* The user moves the Budget slider.
ChangeBudget ==
    /\ status = "ok"
    /\ \E v \in Pairs(BudgetStops(df)) :
          /\ v # budget_range
          /\ Pass(FALSE, [Widgets EXCEPT !.budget_range = v], FALSE)

\* The user moves the Average Rating slider.
ChangeRating ==
    /\ status = "ok"
    /\ \E v \in Pairs(RatingStops(df)) :
          /\ v # rating_range
          /\ Pass(FALSE, [Widgets EXCEPT !.rating_range = v], FALSE)

\* The file on disk is cut down to its header line while the app is running.
SourceRewritten ==
    /\ csv # <<>>
    /\ csv' = <<>>
    /\ UNCHANGED <<cache, reads, df, status, years, selected_genres,
                   budget_range, rating_range, df_filtered, tab_map,
                   tab_trends, tab_table>>

Next ==
    \/ FirstRun
    \/ ChangeYears
    \/ ChangeGenres
    \/ ChangeBudget
    \/ ChangeRating
    \/ SourceRewritten

Spec == Init /\ [][Next]_vars


\* ------------------------------------------------------------------------
\* Properties
\* ------------------------------------------------------------------------
Ran == status = "ok"

Present(r, c) == IF c = "genres" THEN r[c] # NaNStr ELSE r[c] # NaN

\* Row i of the dataset is in the filtered subset.
InSubset(i) == \E j \in DOMAIN df_filtered : df_filtered[j].idx = df[i].idx

YearHolds(r) ==
    Present(r, "startYear") /\ years[1] <= r.startYear /\ r.startYear <= years[2]
RatingHolds(r) ==
    /\ Present(r, "averageRating")
    /\ rating_range[1] <= r.averageRating
    /\ r.averageRating <= rating_range[2]
BudgetHolds(r) ==
    /\ Present(r, "budget")
    /\ budget_range[1] <= QScale * r.budget
    /\ QScale * r.budget <= budget_range[2]
GenreHolds(r) ==
    selected_genres = {} \/ (Present(r, "genres") /\ r.genres \in selected_genres)

\* C1: after a pass, a row of the dataset is in the filtered subset exactly
\* when its year, rating and budget are present and inside the selected
\* inclusive ranges and its genre is selected (or no genre is selected); no
\* row of the subset misses startYear, averageRating or budget.
C1_FilterMembership ==
    Ran =>
        /\ \A i \in DOMAIN df :
              InSubset(i) <=>
                  (YearHolds(df[i]) /\ RatingHolds(df[i]) /\ BudgetHolds(df[i])
                   /\ GenreHolds(df[i]))
        /\ \A j \in DOMAIN df_filtered :
              /\ Present(df_filtered[j], "startYear")
              /\ Present(df_filtered[j], "averageRating")
              /\ Present(df_filtered[j], "budget")

\* A row without a genre is kept because no genre is selected, while a row
\* inside the year and rating ranges is dropped for its missing budget.
C1_Witness ==
    /\ Ran
    /\ selected_genres = {}
    /\ \E i \in DOMAIN df : InSubset(i) /\ ~Present(df[i], "genres")
    /\ \E k \in DOMAIN df :
          /\ ~InSubset(k)
          /\ ~Present(df[k], "budget")
          /\ YearHolds(df[k])
          /\ RatingHolds(df[k])

\* C2: the filtered subset holds only rows of the dataset, in the dataset's
\* order and each at most once, and filtering it again with the same widget
\* values gives the same subset.
C2_SubsetStableIdempotent ==
    Ran =>
        /\ \A j \in DOMAIN df_filtered :
              \E i \in DOMAIN df : df[i] = df_filtered[j]
        /\ \A j, k \in DOMAIN df_filtered :
              j < k => df_filtered[j].idx < df_filtered[k].idx
        /\ ApplyFilters(df_filtered, Widgets) = df_filtered

\* Two rows are kept, so their order is at stake.
C2_Witness == Ran /\ Len(df_filtered) >= 2

RECURSIVE SumOver(_, _, _)
SumOver(frame, S, c) ==
    IF S = {} THEN 0
    ELSE LET i == CHOOSE x \in S : TRUE
         IN  frame[i][c] + SumOver(frame, S \ {i}, c)

\* The rows of the subset that belong to the group (y, g).
Members(y, g) ==
    { i \in DOMAIN df_filtered :
        /\ Present(df_filtered[i], "startYear")
        /\ Present(df_filtered[i], "genres")
        /\ Present(df_filtered[i], "averageRating")
        /\ df_filtered[i].startYear = y
        /\ df_filtered[i].genres = g }

\* C3: the Year-Genre trend has exactly one row for each (startYear, genres)
\* pair of the subset rows with year, genre and rating present, no other
\* row, and each row's value is the mean rating of exactly its group.
C3_TrendGroups ==
    Ran =>
        LET trend == tab_trends.df_group
        IN  /\ \A i \in DOMAIN df_filtered :
                  Members(df_filtered[i].startYear, df_filtered[i].genres) # {}
                  => Cardinality({ k \in DOMAIN trend :
                        /\ trend[k].year = df_filtered[i].startYear
                        /\ trend[k].genres = df_filtered[i].genres }) = 1
            /\ \A k \in DOMAIN trend :
                  LET m == Members(trend[k].year, trend[k].genres)
                  IN  /\ m # {}
                      /\ trend[k].genres # NaNStr
                      /\ trend[k].avg_rating.d > 0
                      /\ trend[k].avg_rating.n * Cardinality(m) =
                            SumOver(df_filtered, m, "averageRating")
                               * trend[k].avg_rating.d

\* Two rows (2001, Drama) rated 6.0 and 8.0 give the one row (2001, Drama, 7.0).
C3_Witness ==
    /\ Ran
    /\ Cardinality(Members(2001, "Drama")) = 2
    /\ SumOver(df_filtered, Members(2001, "Drama"), "averageRating") = 140
    /\ \E k \in DOMAIN tab_trends.df_group :
          tab_trends.df_group[k] =
              [year |-> 2001, genres |-> "Drama", avg_rating |-> [n |-> 70, d |-> 1]]

\* Value a of a sort key goes before value b: b is smaller or missing.
GoesFirst(a, b) == a # b /\ a # NaN /\ (b = NaN \/ a > b)

\* Rows x and y are in table order.
InTableOrder(x, y) ==
    \/ GoesFirst(x.startYear, y.startYear)
    \/ /\ x.startYear = y.startYear
       /\ GoesFirst(x.averageRating, y.averageRating)
    \/ /\ x.startYear = y.startYear
       /\ x.averageRating = y.averageRating
       /\ GoesFirst(x.budget, y.budget)
    \/ /\ x.startYear = y.startYear
       /\ x.averageRating = y.averageRating
       /\ x.budget = y.budget
       /\ GoesFirst(x.numVotes, y.numVotes)
    \/ /\ x.startYear = y.startYear
       /\ x.averageRating = y.averageRating
       /\ x.budget = y.budget
       /\ x.numVotes = y.numVotes

\* C4: the table holds each row of the subset once and is ordered descending
\* by startYear, then averageRating, budget and numVotes, a missing value
\* behind every present one.
C4_TableOrder ==
    Ran =>
        LET table == tab_table.df_display
        IN  /\ Len(table) = Len(df_filtered)
            /\ \A i \in DOMAIN df_filtered :
                  Cardinality({ p \in DOMAIN table : table[p] = df_filtered[i] }) = 1
            /\ \A p, q \in DOMAIN table :
                  p < q => InTableOrder(table[p], table[q])

\* The sort moved a row in front of an earlier row of the subset that ties
\* with it on the first three keys and has no numVotes.
C4_Witness ==
    /\ Ran
    /\ \E p, q \in DOMAIN tab_table.df_display :
          LET x == tab_table.df_display[p]
              y == tab_table.df_display[q]
          IN  /\ p < q
              /\ x.idx > y.idx
              /\ x.startYear = y.startYear
              /\ x.averageRating = y.averageRating
              /\ x.budget = y.budget
              /\ x.numVotes # NaN
              /\ y.numVotes = NaN

Mappable == { i \in DOMAIN df_filtered :
                Present(df_filtered[i], "lat") /\ Present(df_filtered[i], "lon") }

Grouped == { i \in DOMAIN df_filtered :
               /\ Present(df_filtered[i], "startYear")
               /\ Present(df_filtered[i], "genres")
               /\ Present(df_filtered[i], "averageRating") }

Paired == { i \in DOMAIN df_filtered :
              Present(df_filtered[i], "budget")
              /\ Present(df_filtered[i], "averageRating") }

HasChart(mark) ==
    \E c \in DOMAIN tab_trends.charts : tab_trends.charts[c].mark = mark

\* C5: in a pass, a tab whose view is empty shows a notice and nothing else:
\* centroid and markers only with a mappable row, the line chart only with a
\* trend row, the scatter chart only with a budget-rating pair, the table
\* only with a non-empty subset.
C5_EmptyViews ==
    Ran =>
        /\ Mappable = {} =>
              /\ tab_map.info # <<>>
              /\ tab_map.centre = <<>>
              /\ tab_map.markers = <<>>
              /\ ~tab_map.drawn
        /\ Grouped = {} => tab_trends.info # <<>> /\ ~HasChart("line")
        /\ Paired = {} => tab_trends.info # <<>> /\ ~HasChart("circle")
        /\ df_filtered = <<>> =>
              /\ tab_table.info # <<>>
              /\ tab_table.df_display = <<>>
              /\ ~tab_table.drawn
        /\ \A c \in DOMAIN tab_trends.charts : tab_trends.charts[c].data # <<>>

\* The subset has rows, none of them mappable, and the map tab shows a notice.
C5_Witness ==
    /\ Ran
    /\ df_filtered # <<>>
    /\ Mappable = {}
    /\ tab_map.info # <<>>

\* C6: the source is read at most once, and from the first pass on neither
\* the dataset the script works on nor the cached dataset ever changes.
C6_LoadOnce ==
    /\ [](reads <= 1)
    /\ [][status # "init" => df' = df /\ cache' = cache]_vars

\* A pass has run with widget values other than the defaults after one read,
\* and the file on disk no longer has the rows of the dataset.
C6_Witness ==
    /\ Ran
    /\ reads = 1
    /\ df # <<>>
    /\ csv = <<>>
    /\ years # Defaults(df).years

\* C7: the markers are, one to one, the subset rows with lat and lon present;
\* the centroid is the mean over those rows only; a row without lat or lon
\* is still in the table, in the Budget-Rating pairs, and in its Year-Genre
\* group when year, genre and rating are present.
C7_Unmappable ==
    Ran =>
        /\ Len(tab_map.markers) = Cardinality(Mappable)
        /\ \A i \in Mappable :
              Cardinality({ m \in DOMAIN tab_map.markers :
                  /\ tab_map.markers[m].idx = df_filtered[i].idx
                  /\ tab_map.markers[m].location =
                        <<df_filtered[i].lat, df_filtered[i].lon>> }) = 1
        /\ Mappable # {} =>
              /\ tab_map.centre[1].n * Cardinality(Mappable) =
                    SumOver(df_filtered, Mappable, "lat") * tab_map.centre[1].d
              /\ tab_map.centre[2].n * Cardinality(Mappable) =
                    SumOver(df_filtered, Mappable, "lon") * tab_map.centre[2].d
              /\ tab_map.centre[1].d > 0
              /\ tab_map.centre[2].d > 0
        /\ \A i \in DOMAIN df_filtered \ Mappable :
              /\ \E p \in DOMAIN tab_table.df_display :
                    tab_table.df_display[p] = df_filtered[i]
              /\ i \in Paired =>
                    \E p \in DOMAIN tab_trends.df_scatter :
                        tab_trends.df_scatter[p].idx = df_filtered[i].idx
              /\ i \in Grouped =>
                    \E k \in DOMAIN tab_trends.df_group :
                        /\ tab_trends.df_group[k].year = df_filtered[i].startYear
                        /\ tab_trends.df_group[k].genres = df_filtered[i].genres

\* The subset has a mappable row and a row with lat but no lon, which is in
\* a trend group.
C7_Witness ==
    /\ Ran
    /\ Mappable # {}
    /\ \E i \in Grouped :
          Present(df_filtered[i], "lat") /\ ~Present(df_filtered[i], "lon")

ScatterFields == {"title", "startYear", "genres", "budget", "averageRating"}

PairsAreCompleteRows ==
    /\ Len(tab_trends.df_scatter) = Cardinality(Paired)
    /\ \A i \in Paired :
          Cardinality({ p \in DOMAIN tab_trends.df_scatter :
              tab_trends.df_scatter[p].idx = df_filtered[i].idx }) = 1
    /\ \A p, q \in DOMAIN tab_trends.df_scatter :
          p < q => tab_trends.df_scatter[p].idx < tab_trends.df_scatter[q].idx

\* C8 as stated: the Budget-Rating pairs are the subset rows with budget and
\* rating present, and each carries the five fields title, startYear,
\* genres, budget, averageRating and no other.
C8_PairsProjected ==
    Ran =>
        /\ PairsAreCompleteRows
        /\ \A p \in DOMAIN tab_trends.df_scatter :
              DOMAIN tab_trends.df_scatter[p] \ {"idx"} = ScatterFields

\* C8 amended: the Budget-Rating pairs are the subset rows with budget and
\* rating present, unaggregated and whole: each is the subset row with every
\* column of the dataset; only the scatter chart's tooltip names the five
\* fields.
C8_PairsWhole ==
    Ran =>
        /\ PairsAreCompleteRows
        /\ \A p \in DOMAIN tab_trends.df_scatter :
              \E i \in Paired : tab_trends.df_scatter[p] = df_filtered[i]
        /\ \A c \in DOMAIN tab_trends.charts :
              tab_trends.charts[c].mark = "circle" =>
                  /\ Range(tab_trends.charts[c].tooltip) = ScatterFields
                  /\ tab_trends.charts[c].data = tab_trends.df_scatter

\* The scatter chart was drawn from a row that has numVotes, lat and lon.
C8_Witness ==
    /\ Ran
    /\ HasChart("circle")
    /\ \E p \in DOMAIN tab_trends.df_scatter :
          /\ Present(tab_trends.df_scatter[p], "numVotes")
          /\ Present(tab_trends.df_scatter[p], "lat")
          /\ Present(tab_trends.df_scatter[p], "lon")

\* The file on disk is the one the dataset was loaded from.
FileIsLoaded == cache.hit /\ Len(csv) = Len(df)

\* C9: normalising the genres column turns the sentinel and the empty cell
\* into the missing marker, leaves every other cell as it is, and changes
\* nothing when applied a second time; the loaded dataset is normalised so.
C9_Normalisation ==
    LET raw  == Column(csv, "genres")
        once == NormalizeGenres(raw)
    IN  /\ \A i \in DOMAIN raw :
              once[i] = IF raw[i] = Sentinel \/ raw[i] = NaNStr
                        THEN NaNStr ELSE raw[i]
        /\ NormalizeGenres(once) = once
        /\ FileIsLoaded => Column(df, "genres") = once
        /\ cache.hit =>
              /\ \A i \in DOMAIN df : df[i].genres # Sentinel
              /\ NormalizeGenres(Column(df, "genres")) = Column(df, "genres")

\* The file loaded has a sentinel cell, an empty cell or a named genre, and
\* the dataset has the missing marker in place of the sentinel.
C9_Witness ==
    /\ FileIsLoaded
    /\ \E i \in DOMAIN csv : csv[i].genres = Sentinel /\ df[i].genres = NaNStr
    /\ \E i \in DOMAIN csv : csv[i].genres # Sentinel

\* C10: once the dataset is loaded, the default pair (lo, hi) handed to the
\* year slider, lo = max(2000, min_year) and hi = max_year, satisfies
\* min_year <= lo <= hi <= max_year.
C10_DefaultYearsValid ==
    cache.hit =>
        /\ YearSliderArgs(df).min_value = min_year(df)
        /\ YearSliderArgs(df).max_value = max_year(df)
        /\ min_year(df) <= YearSliderArgs(df).value[1]
        /\ YearSliderArgs(df).value[1] <= YearSliderArgs(df).value[2]
        /\ YearSliderArgs(df).value[2] <= max_year(df)

=============================================================================
